---- MODULE Spec2Model ----
(***************************************************************************)
(* Fund-forwarding contract (src/src/contract.rs): init, handle            *)
(* (TokenSend, ResetReceiver) and query (GetReceiver) over the single      *)
(* persisted State record {receiver, owner}.                               *)
(*                                                                         *)
(* Addresses.  A human address is a sequence of non-zero bytes; a          *)
(* canonical address is the same bytes padded with zero bytes to           *)
(* canonical_length.  Option<T> and the singleton storage slot are sets    *)
(* with at most one element.  StdResult<T> is a record with field ok and   *)
(* either val or err.                                                      *)
(***************************************************************************)
EXTENDS Integers, Sequences, FiniteSets, TLC

VARIABLES
    storage,    \* the singleton slot: {} or {State}
    call,       \* the latest call: message, sender, attached funds
    before,     \* the slot as the latest call found it
    res,        \* what the latest call returned
    given,      \* history: the receiver string of the latest successful
                \* Init or ResetReceiver, which of the two it was, and
                \* whether a ResetReceiver has failed since
    lastQuery   \* history: the latest GetReceiver result since the latest
                \* successful ResetReceiver, and what has happened since

vars == <<storage, call, before, res, given, lastQuery>>

(* ------------------------------ bounds --------------------------------- *)

\* longest attached funds list
MaxFunds == 2
\* length of a canonical address (the codec's parameter; 44 in the tests'
\* mock_dependencies(44, ..))
canonical_length == 5

(* ----------------------------- constants ------------------------------- *)


\* x.denom == "uusd"
UST == "uusd"

(* --------------------------- input universe ---------------------------- *)

Creator == <<1, 1, 1>>
Anyone == <<2, 2, 2>>
AddrB == <<3, 3, 3, 3>>
\* a string the address codec rejects
Malformed == <<4>>
\* env.contract.address
ContractAddress == <<9, 9, 9>>

WellFormed == {Creator, Anyone, AddrB}
HumanAddrs == WellFormed \cup {Malformed}

\* coins(100, "uusd"), coins(2, "token"), and uusd with amount zero
Coins ==
    {[denom |-> UST, amount |-> 100], [denom |-> "token", amount |-> 2],
     [denom |-> UST, amount |-> 0]}
FundsLists == UNION {[1..n -> Coins] : n \in 0..MaxFunds}
\* funds attached to calls that never read env.message.sent_funds
UnreadFunds == {<<>>, <<[denom |-> "token", amount |-> 2]>>}

(* ------------------------------ results -------------------------------- *)

Ok(v) == [ok |-> TRUE, val |-> v]
Err(e) == [ok |-> FALSE, err |-> e]

\* StdError::generic_err(msg)
generic_err(m) == [kind |-> "GenericErr", msg |-> m]
\* StdError::unauthorized()
unauthorized == [kind |-> "Unauthorized", msg |-> ""]
\* StdError::not_found(kind), returned by load() on an empty slot
not_found == [kind |-> "NotFound", msg |-> "State"]
\* failure of the address codec
address_error == [kind |-> "AddressConversionError", msg |-> ""]

(* --------------------------- address codec ----------------------------- *)

Zeros(n) == [i \in 1..n |-> 0]

\* the bytes of s up to its last non-zero byte
TrimZeros(s) ==
    LET nonzero == {i \in 1..Len(s) : s[i] # 0} IN
    IF nonzero = {} THEN <<>>
    ELSE SubSeq(s, 1, CHOOSE i \in nonzero : \A j \in nonzero : j <= i)

\* deps.api.canonical_address(&human)
canonical_address(human) ==
    IF Len(human) < 3 \/ Len(human) > canonical_length
    THEN Err(address_error)
    ELSE Ok(human \o Zeros(canonical_length - Len(human)))

\* deps.api.human_address(&canonical)
human_address(canonical) ==
    IF Len(canonical) # canonical_length
    THEN Err(address_error)
    ELSE Ok(TrimZeros(canonical))

(* ------------------------------ storage -------------------------------- *)

\* config_read(&deps.storage).load()
load(store) ==
    IF store = {} THEN Err(not_found) ELSE Ok(CHOOSE s \in store : TRUE)

\* config(&mut deps.storage).save(&state)
save(store, state) == {state}

(* ----------------------------- responses ------------------------------- *)

\* InitResponse::default() / HandleResponse::default()
DefaultResponse == [messages |-> <<>>, log |-> <<>>, data |-> {}]

\* log(key, value)
log(k, v) == [key |-> k, value |-> v]

\* CosmosMsg::Bank(BankMsg::Send { from_address, to_address, amount })
BankSend(from, to, amount) ==
    [type |-> "BankSend", from_address |-> from, to_address |-> to,
     amount |-> amount]

\* what an entry point hands back: the storage it leaves and its StdResult
Outcome(store, result) == [store |-> store, result |-> result]

(* ----------------------------- the contract ---------------------------- *)

Env(sender, funds) ==
    [sender |-> sender, sent_funds |-> funds, contract |-> ContractAddress]

\* fault: the two fields of State filled from each other's source
init_Swapped(store, env, msg) ==
    LET receiver == canonical_address(msg.receiver) IN
    IF ~receiver.ok THEN Outcome(store, receiver)
    ELSE LET owner == canonical_address(env.sender) IN
         IF ~owner.ok THEN Outcome(store, owner)
         ELSE LET state == [receiver |-> owner.val, owner |-> receiver.val]
              IN Outcome(save(store, state), Ok(DefaultResponse))

\* fault: a sender that does not convert is replaced by the empty address
init_DefaultOwner(store, env, msg) ==
    LET receiver == canonical_address(msg.receiver) IN
    IF ~receiver.ok THEN Outcome(store, receiver)
    ELSE LET owner == canonical_address(env.sender)
             state == [receiver |-> receiver.val,
                       owner |-> IF owner.ok THEN owner.val
                                 ELSE Zeros(canonical_length)]
         IN Outcome(save(store, state), Ok(DefaultResponse))

\* variant: a guard the code does not have, refusing a second init
init_Guarded(store, env, msg) ==
    IF store # {} THEN Outcome(store, Err(unauthorized))
    ELSE LET receiver == canonical_address(msg.receiver) IN
         IF ~receiver.ok THEN Outcome(store, receiver)
         ELSE LET owner == canonical_address(env.sender) IN
              IF ~owner.ok THEN Outcome(store, owner)
              ELSE LET state == [receiver |-> receiver.val,
                                 owner |-> owner.val]
                   IN Outcome(save(store, state), Ok(DefaultResponse))

init(store, env, msg) ==
    LET receiver == canonical_address(msg.receiver) IN
    IF ~receiver.ok THEN Outcome(store, receiver)
    ELSE LET owner == canonical_address(env.sender) IN
         IF ~owner.ok THEN Outcome(store, owner)
         ELSE LET state == [receiver |-> receiver.val, owner |-> owner.val]
              IN Outcome(save(store, state), Ok(DefaultResponse))

\* fault: >= in place of > in the amount test
HasUST_ZeroAmount(funds) ==
    \E i \in 1..Len(funds) : funds[i].denom = UST /\ funds[i].amount >= 0

HasUST(funds) ==
    \E i \in 1..Len(funds) : funds[i].denom = UST /\ funds[i].amount > 0

\* fault: only the uusd entries are forwarded
try_tokensend_QualifyingOnly(store, env) ==
    LET funds == env.sent_funds
        IsUST(coin) == coin.denom = UST /\ coin.amount > 0
    IN
    IF ~HasUST(funds)
    THEN Outcome(store, Err(generic_err("You must pass some UST")))
    ELSE LET state == load(store) IN
         IF ~state.ok THEN Outcome(store, state)
         ELSE LET recipient == human_address(state.val.receiver) IN
              IF ~recipient.ok THEN Outcome(store, recipient)
              ELSE Outcome(store, Ok(
                     [messages |-> <<BankSend(env.contract, recipient.val,
                                              SelectSeq(funds, IsUST))>>,
                      log |-> <<log("action", "send"),
                                log("recipient", recipient.val)>>,
                      data |-> {}]))

\* fault: a successful send records its sender as the receiver
try_tokensend_TakesReceiver(store, env) ==
    LET funds == env.sent_funds IN
    IF ~HasUST(funds)
    THEN Outcome(store, Err(generic_err("You must pass some UST")))
    ELSE LET state == load(store) IN
         IF ~state.ok THEN Outcome(store, state)
         ELSE LET recipient == human_address(state.val.receiver)
                  sender == canonical_address(env.sender)
              IN
              IF ~recipient.ok THEN Outcome(store, recipient)
              ELSE IF ~sender.ok THEN Outcome(store, sender)
              ELSE Outcome(
                     save(store, [state.val EXCEPT !.receiver = sender.val]),
                     Ok([messages |-> <<BankSend(env.contract, recipient.val,
                                                 funds)>>,
                         log |-> <<log("action", "send"),
                                   log("recipient", recipient.val)>>,
                         data |-> {}]))

\* fault: the send gated by the owner test of try_reset
try_tokensend_OwnerOnly(store, env) ==
    LET funds == env.sent_funds IN
    IF ~HasUST(funds)
    THEN Outcome(store, Err(generic_err("You must pass some UST")))
    ELSE LET state == load(store) IN
         IF ~state.ok THEN Outcome(store, state)
         ELSE LET recipient == human_address(state.val.receiver)
                  sender == canonical_address(env.sender)
              IN
              IF ~sender.ok THEN Outcome(store, sender)
              ELSE IF sender.val # state.val.owner
              THEN Outcome(store, Err(unauthorized))
              ELSE IF ~recipient.ok THEN Outcome(store, recipient)
              ELSE Outcome(store, Ok(
                     [messages |-> <<BankSend(env.contract, recipient.val,
                                              funds)>>,
                      log |-> <<log("action", "send"),
                                log("recipient", recipient.val)>>,
                      data |-> {}]))

\* fault: a successful send removes the record
try_tokensend_Consumes(store, env) ==
    LET funds == env.sent_funds IN
    IF ~HasUST(funds)
    THEN Outcome(store, Err(generic_err("You must pass some UST")))
    ELSE LET state == load(store) IN
         IF ~state.ok THEN Outcome(store, state)
         ELSE LET recipient == human_address(state.val.receiver) IN
              IF ~recipient.ok THEN Outcome(store, recipient)
              ELSE Outcome({}, Ok(
                     [messages |-> <<BankSend(env.contract, recipient.val,
                                              funds)>>,
                      log |-> <<log("action", "send"),
                                log("recipient", recipient.val)>>,
                      data |-> {}]))

\* fault: the record loaded before the funds are tested
try_tokensend_LoadsFirst(store, env) ==
    LET funds == env.sent_funds
        state == load(store)
    IN
    IF ~state.ok THEN Outcome(store, state)
    ELSE IF ~HasUST(funds)
    THEN Outcome(store, Err(generic_err("You must pass some UST")))
    ELSE LET recipient == human_address(state.val.receiver) IN
         IF ~recipient.ok THEN Outcome(store, recipient)
         ELSE Outcome(store, Ok(
                [messages |-> <<BankSend(env.contract, recipient.val,
                                         funds)>>,
                 log |-> <<log("action", "send"),
                           log("recipient", recipient.val)>>,
                 data |-> {}]))

try_tokensend(store, env) ==
    LET funds == env.sent_funds IN
    IF ~HasUST(funds)
    THEN Outcome(store, Err(generic_err("You must pass some UST")))
    ELSE LET state == load(store) IN
         IF ~state.ok THEN Outcome(store, state)
         ELSE LET recipient == human_address(state.val.receiver) IN
              IF ~recipient.ok THEN Outcome(store, recipient)
              ELSE Outcome(store, Ok(
                     [messages |-> <<BankSend(env.contract, recipient.val,
                                              funds)>>,
                      log |-> <<log("action", "send"),
                                log("recipient", recipient.val)>>,
                      data |-> {}]))

\* fault: == in place of != in the owner test
ResetAction_Inverted(env, receiver, state) ==
    LET sender == canonical_address(env.sender) IN
    IF ~sender.ok THEN sender
    ELSE IF sender.val = state.owner THEN Err(unauthorized)
    ELSE Ok([state EXCEPT !.receiver = receiver])

\* fault: the assignment to state.receiver left out
ResetAction_KeepsReceiver(env, receiver, state) ==
    LET sender == canonical_address(env.sender) IN
    IF ~sender.ok THEN sender
    ELSE IF sender.val # state.owner THEN Err(unauthorized)
    ELSE Ok(state)

\* fault: the owner test left out
ResetAction_NoCheck(env, receiver, state) ==
    LET sender == canonical_address(env.sender) IN
    IF ~sender.ok THEN sender
    ELSE Ok([state EXCEPT !.receiver = receiver])

\* fault: the new address assigned to state.owner
ResetAction_SetsOwner(env, receiver, state) ==
    LET sender == canonical_address(env.sender) IN
    IF ~sender.ok THEN sender
    ELSE IF sender.val # state.owner THEN Err(unauthorized)
    ELSE Ok([state EXCEPT !.owner = receiver])

\* the closure passed to update() in try_reset
ResetAction(env, receiver, state) ==
    LET sender == canonical_address(env.sender) IN
    IF ~sender.ok THEN sender
    ELSE IF sender.val # state.owner THEN Err(unauthorized)
    ELSE Ok([state EXCEPT !.receiver = receiver])

\* fault: the receiver saved before the owner test, which then fails
try_reset_WritesFirst(store, env, receiver) ==
    LET found == load(store) IN
    IF ~found.ok THEN Outcome(store, found)
    ELSE LET written == save(store, [found.val EXCEPT !.receiver = receiver])
             checked == ResetAction(env, receiver, found.val)
         IN IF ~checked.ok THEN Outcome(written, checked)
            ELSE Outcome(written, Ok(DefaultResponse))

\* fault: a successful reset logs what it did
try_reset_Logs(store, env, receiver) ==
    LET found == load(store) IN
    IF ~found.ok THEN Outcome(store, found)
    ELSE LET updated == ResetAction(env, receiver, found.val) IN
         IF ~updated.ok THEN Outcome(store, updated)
         ELSE Outcome(save(store, updated.val),
                      Ok([messages |-> <<>>,
                          log |-> <<log("action", "reset")>>,
                          data |-> {}]))

\* fault: a reset that finds no record creates one owned by its sender
try_reset_Creates(store, env, receiver) ==
    LET found == load(store)
        sender == canonical_address(env.sender)
    IN
    IF ~found.ok
    THEN IF ~sender.ok THEN Outcome(store, sender)
         ELSE Outcome(save(store, [receiver |-> receiver,
                                   owner |-> sender.val]),
                      Ok(DefaultResponse))
    ELSE LET updated == ResetAction(env, receiver, found.val) IN
         IF ~updated.ok THEN Outcome(store, updated)
         ELSE Outcome(save(store, updated.val), Ok(DefaultResponse))

\* config(..).update(closure) loads the record, applies the closure and
\* saves what it returns; an Err from load or from the closure is returned
\* before anything is saved
try_reset(store, env, receiver) ==
    LET found == load(store) IN
    IF ~found.ok THEN Outcome(store, found)
    ELSE LET updated == ResetAction(env, receiver, found.val) IN
         IF ~updated.ok THEN Outcome(store, updated)
         ELSE Outcome(save(store, updated.val), Ok(DefaultResponse))

\* fault: the receiver string converted after the record is loaded and the
\* owner tested
handle_ConvertsLast(store, env, msg) ==
    IF msg.type = "TokenSend" THEN try_tokensend(store, env)
    ELSE LET found == load(store)
             sender == canonical_address(env.sender)
             receiver == canonical_address(msg.receiver)
         IN
         IF ~found.ok THEN Outcome(store, found)
         ELSE IF ~sender.ok THEN Outcome(store, sender)
         ELSE IF sender.val # found.val.owner
         THEN Outcome(store, Err(unauthorized))
         ELSE IF ~receiver.ok THEN Outcome(store, receiver)
         ELSE try_reset(store, env, receiver.val)

handle(store, env, msg) ==
    IF msg.type = "TokenSend" THEN try_tokensend(store, env)
    ELSE LET receiver == canonical_address(msg.receiver) IN
         IF ~receiver.ok THEN Outcome(store, receiver)
         ELSE try_reset(store, env, receiver.val)

query_receiver(store) ==
    LET state == load(store) IN
    IF ~state.ok THEN state
    ELSE LET receiver == human_address(state.val.receiver) IN
         IF ~receiver.ok THEN receiver
         ELSE Ok([receiver |-> receiver.val])

\* to_binary(&query_receiver(deps)?): the response record stands for its
\* JSON encoding
query(store, msg) == query_receiver(store)

(* ------------------------------ messages ------------------------------- *)

\* msg.rs
InitMsg(receiver) == [type |-> "Init", receiver |-> receiver]
TokenSendMsg == [type |-> "TokenSend", receiver |-> <<>>]
ResetReceiverMsg(receiver) == [type |-> "ResetReceiver", receiver |-> receiver]
GetReceiverMsg == [type |-> "GetReceiver", receiver |-> <<>>]

(* --------------------------- state machine ----------------------------- *)

NoCall == [msg |-> [type |-> "None", receiver |-> <<>>],
           sender |-> <<>>, sent_funds |-> <<>>]

NoResult == [ok |-> TRUE, err |-> {}, messages |-> <<>>, log |-> <<>>,
             data |-> {}]

\* the StdResult of init or handle, flattened to one record shape
Flat(result) ==
    IF result.ok
    THEN [ok |-> TRUE, err |-> {}, messages |-> result.val.messages,
          log |-> result.val.log, data |-> result.val.data]
    ELSE [ok |-> FALSE, err |-> {result.err}, messages |-> <<>>,
          log |-> <<>>, data |-> {}]

\* the StdResult<Binary> of query, in the same shape
FlatQuery(result) ==
    IF result.ok
    THEN [ok |-> TRUE, err |-> {}, messages |-> <<>>, log |-> <<>>,
          data |-> {result.val}]
    ELSE [ok |-> FALSE, err |-> {result.err}, messages |-> <<>>,
          log |-> <<>>, data |-> {}]

\* history bookkeeping: a call other than a query sets one flag of the
\* remembered query, if any; repeats describes a query that is the latest
\* call, so it is dropped
Mark(remembered, flag) ==
    {[q EXCEPT ![flag] = TRUE, !.repeats = FALSE] : q \in remembered}

Init ==
    /\ storage = {}
    /\ call = NoCall
    /\ before = {}
    /\ res = NoResult
    /\ given = {}
    /\ lastQuery = {}

\* one invocation of init
Instantiate(sender, funds, receiver) ==
    \E out \in {init(storage, Env(sender, funds), InitMsg(receiver))} :
    /\ storage' = out.store
    /\ call' = [msg |-> InitMsg(receiver), sender |-> sender,
                sent_funds |-> funds]
    /\ before' = storage
    /\ res' = Flat(out.result)
    /\ given' = IF out.result.ok
                THEN {[by |-> "Init", receiver |-> receiver,
                       refused |-> FALSE]}
                ELSE given
    /\ lastQuery' = IF out.result.ok THEN Mark(lastQuery, "reinit")
                    ELSE Mark(lastQuery, "between")

\* one invocation of handle
Execute(sender, funds, msg) ==
    \E out \in {handle(storage, Env(sender, funds), msg)} :
    LET reset == msg.type = "ResetReceiver" /\ out.result.ok IN
    /\ storage' = out.store
    /\ call' = [msg |-> msg, sender |-> sender, sent_funds |-> funds]
    /\ before' = storage
    /\ res' = Flat(out.result)
    /\ given' = IF reset
                THEN {[by |-> "ResetReceiver", receiver |-> msg.receiver,
                       refused |-> FALSE]}
                ELSE IF msg.type = "ResetReceiver"
                THEN {[g EXCEPT !.refused = TRUE] : g \in given}
                ELSE given
    /\ lastQuery' = IF reset THEN {} ELSE Mark(lastQuery, "between")

\* one invocation of query; deps is borrowed immutably
GetReceiver ==
    \E result \in {FlatQuery(query(storage, GetReceiverMsg))} :
    /\ call' = [msg |-> GetReceiverMsg, sender |-> <<>>, sent_funds |-> <<>>]
    /\ before' = storage
    /\ res' = result
    /\ lastQuery' = {[result |-> result, reinit |-> FALSE,
                      between |-> FALSE,
                      repeats |-> \E q \in lastQuery :
                                     q.between /\ ~q.reinit]}
    /\ UNCHANGED <<storage, given>>

TokenSend(senders) ==
    \E sender \in senders, funds \in FundsLists :
       Execute(sender, funds, TokenSendMsg)

ResetReceiver(senders) ==
    \E sender \in senders, receiver \in HumanAddrs, funds \in UnreadFunds :
       Execute(sender, funds, ResetReceiverMsg(receiver))

\* The host instantiates a contract instance once, and every sender it
\* passes is a well-formed address.
HostInit ==
    /\ storage = {}
    /\ \E sender \in WellFormed, receiver \in HumanAddrs,
          funds \in UnreadFunds :
          Instantiate(sender, funds, receiver)

HostTokenSend == TokenSend(WellFormed)

HostResetReceiver == ResetReceiver(WellFormed)

Next == HostInit \/ HostTokenSend \/ HostResetReceiver \/ GetReceiver

Spec == Init /\ [][Next]_vars

\* The entry points called directly, as the unit tests call them: init from
\* any state, any string as the sender.
DirectInit ==
    \E sender \in HumanAddrs, receiver \in HumanAddrs, funds \in UnreadFunds :
       Instantiate(sender, funds, receiver)

DirectTokenSend == TokenSend(HumanAddrs)

DirectResetReceiver == ResetReceiver(HumanAddrs)

NextDirect ==
    DirectInit \/ DirectTokenSend \/ DirectResetReceiver \/ GetReceiver

SpecDirect == Init /\ [][NextDirect]_vars

(* ------------------------- vocabulary of claims ------------------------ *)

\* the record in a non-empty slot
TheState(store) == CHOOSE s \in store : TRUE

IsCall(type) == call.msg.type = type

\* the latest call found a record, and its sender canonicalizes to the
\* owner stored in it
ByOwner ==
    /\ before # {}
    /\ canonical_address(call.sender).ok
    /\ canonical_address(call.sender).val = TheState(before).owner

\* the latest call found a record, and its sender canonicalizes to something
\* else than the owner stored in it
ByStranger ==
    /\ before # {}
    /\ canonical_address(call.sender).ok
    /\ canonical_address(call.sender).val # TheState(before).owner

\* the receiver string of the latest call is one the codec accepts
ReceiverWellFormed == canonical_address(call.msg.receiver).ok

(* ------------------------------- C1 ------------------------------------ *)

\* C1 as stated: on an initialized contract, a ResetReceiver call by a
\* caller whose canonical address differs from the stored owner fails with
\* Unauthorized whatever the receiver string is, and the stored receiver is
\* the same after the call as before it.
C1_StrangerAlwaysUnauthorized ==
    (IsCall("ResetReceiver") /\ ByStranger) =>
        /\ res.err = {unauthorized}
        /\ storage # {}
        /\ TheState(storage).receiver = TheState(before).receiver

\* C1 amended: such a call always fails and leaves the stored record as it
\* was; the error is Unauthorized when the receiver string is well-formed
\* and the address-conversion error when it is malformed.
C1_StrangerResetFails ==
    (IsCall("ResetReceiver") /\ ByStranger) =>
        /\ ~res.ok
        /\ res.err = {IF ReceiverWellFormed THEN unauthorized
                      ELSE address_error}
        /\ storage = before

\* a stranger asked for a well-formed receiver other than the stored one and
\* was refused
C1_Witness ==
    /\ IsCall("ResetReceiver")
    /\ ByStranger
    /\ ReceiverWellFormed
    /\ canonical_address(call.msg.receiver).val # TheState(before).receiver
    /\ res.err = {unauthorized}

(* ------------------------------- C2 ------------------------------------ *)

\* C2 as stated: on an initialized contract, a ResetReceiver call by the
\* owner always succeeds and a GetReceiver query made next returns the
\* receiver given in the call.
C2_OwnerResetAlwaysSucceeds ==
    (IsCall("ResetReceiver") /\ ByOwner) =>
        /\ res.ok
        /\ query(storage, GetReceiverMsg) = Ok([receiver |-> call.msg.receiver])

\* C2 amended: on an initialized contract, a ResetReceiver call by the owner
\* with a well-formed receiver string always succeeds, and every GetReceiver
\* query made while that call is the latest successful reset returns the
\* receiver string given in it.
C2_OwnerResetThenQuery ==
    /\ (IsCall("ResetReceiver") /\ ByOwner /\ ReceiverWellFormed) => res.ok
    /\ IsCall("GetReceiver") =>
          \A g \in given :
             g.by = "ResetReceiver" =>
                res.ok /\ res.data = {[receiver |-> g.receiver]}

\* a query answered after a successful reset, with other calls in between
C2_Witness ==
    /\ IsCall("GetReceiver")
    /\ res.ok
    /\ \E g \in given : g.by = "ResetReceiver"
    /\ \E q \in lastQuery : q.repeats

(* ------------------------------- C3 ------------------------------------ *)

\* C3: between two consecutive initialized states the stored receiver
\* differs only if the step is a successful ResetReceiver whose sender
\* canonicalizes to the stored owner.
C3_ReceiverChangesOnlyByOwnerReset ==
    [][(/\ storage # {}
        /\ storage' # {}
        /\ TheState(storage').receiver # TheState(storage).receiver)
       => (/\ call'.msg.type = "ResetReceiver"
           /\ res'.ok
           /\ canonical_address(call'.sender).ok
           /\ canonical_address(call'.sender).val = TheState(storage).owner)
      ]_vars

\* an owner's reset has replaced the stored receiver by a different one
C3_Witness ==
    /\ IsCall("ResetReceiver")
    /\ ByOwner
    /\ res.ok
    /\ TheState(storage).receiver # TheState(before).receiver

(* ------------------------------- C4 ------------------------------------ *)

\* C4: once the record exists, every step leaves a record with the same
\* owner.
C4_OwnerImmutable ==
    [][storage # {} =>
          (storage' # {} /\ TheState(storage').owner = TheState(storage).owner)
      ]_vars

\* the record has been rewritten by a successful reset to an address other
\* than the owner's, and the owner is still the one who instantiated
C4_Witness ==
    /\ IsCall("ResetReceiver")
    /\ res.ok
    /\ before # {}
    /\ storage # before
    /\ TheState(storage).receiver # TheState(storage).owner
    /\ TheState(storage).owner = TheState(before).owner

(* ------------------------------- C5 ------------------------------------ *)

\* C5: a call that returns an error leaves the slot (the record, or its
\* absence) exactly as it found it.
C5_Atomicity == [][~res'.ok => storage' = storage]_vars

\* init has failed on a contract that already had a record
C5_Witness ==
    /\ IsCall("Init")
    /\ ~res.ok
    /\ before # {}
    /\ storage = before

(* ------------------------------- C6 ------------------------------------ *)

\* C6: a successful TokenSend returns exactly one message, a bank send from
\* the contract's own address to the stored receiver of the whole attached
\* funds list in the order supplied, and exactly the two log entries
\* action=send and recipient=<receiver>, in that order.
C6_ForwardsEverything ==
    (IsCall("TokenSend") /\ res.ok) =>
        /\ before # {}
        /\ Len(res.messages) = 1
        /\ res.messages[1].type = "BankSend"
        /\ res.messages[1].from_address = ContractAddress
        /\ canonical_address(res.messages[1].to_address)
              = Ok(TheState(before).receiver)
        /\ res.messages[1].amount = call.sent_funds
        /\ res.log = <<[key |-> "action", value |-> "send"],
                       [key |-> "recipient",
                        value |-> res.messages[1].to_address]>>

\* a send has succeeded whose first coin is not a positive uusd amount
C6_Witness ==
    /\ IsCall("TokenSend")
    /\ res.ok
    /\ Len(call.sent_funds) >= 2
    /\ (call.sent_funds[1].denom # "uusd" \/ call.sent_funds[1].amount = 0)

(* ------------------------------- C7 ------------------------------------ *)

\* some attached coin is uusd with a positive amount
Qualifying(funds) ==
    \E coin \in {funds[i] : i \in DOMAIN funds} :
       coin.denom = "uusd" /\ ~(coin.amount = 0)

\* C7: on an initialized contract TokenSend succeeds exactly when a
\* qualifying coin is attached; otherwise it fails with the generic error
\* "You must pass some UST", returns no message and leaves the record as it
\* was.
C7_SucceedsIffQualifying ==
    (IsCall("TokenSend") /\ before # {}) =>
        /\ res.ok <=> Qualifying(call.sent_funds)
        /\ ~res.ok =>
              /\ res.err = {[kind |-> "GenericErr",
                             msg |-> "You must pass some UST"]}
              /\ res.messages = <<>>
              /\ storage = before

\* a send carrying uusd with amount zero has been refused
C7_Witness ==
    /\ IsCall("TokenSend")
    /\ before # {}
    /\ ~res.ok
    /\ \E i \in DOMAIN call.sent_funds :
          call.sent_funds[i] = [denom |-> "uusd", amount |-> 0]

(* ------------------------------- C8 ------------------------------------ *)

\* C8: a TokenSend step, successful or failed, leaves the slot as it was.
C8_TokenSendKeepsState ==
    [][call'.msg.type = "TokenSend" => storage' = storage]_vars

\* a send by someone other than the receiver has succeeded
C8_Witness ==
    /\ IsCall("TokenSend")
    /\ res.ok
    /\ before # {}
    /\ canonical_address(call.sender).val # TheState(before).receiver

(* ------------------------------- C9 ------------------------------------ *)

\* C9: after a successful Init with receiver string R by caller O the stored
\* owner is the canonical form of O, the Init response has no messages and
\* no log entries, and GetReceiver returns exactly R: both the query made
\* next and every query made while that Init is the latest successful write
\* of the receiver.
C9_InitThenQuery ==
    /\ (IsCall("Init") /\ res.ok) =>
          /\ query(storage, GetReceiverMsg)
                = Ok([receiver |-> call.msg.receiver])
          /\ storage # {}
          /\ Ok(TheState(storage).owner) = canonical_address(call.sender)
          /\ res.messages = <<>>
          /\ res.log = <<>>
    /\ IsCall("GetReceiver") =>
          \A g \in given :
             g.by = "Init" =>
                res.ok /\ res.data = {[receiver |-> g.receiver]}

\* a query answered after an Init whose receiver was not the caller
C9_Witness ==
    /\ IsCall("GetReceiver")
    /\ res.ok
    /\ \E g \in given :
          /\ g.by = "Init"
          /\ canonical_address(g.receiver).val # TheState(storage).owner

(* ------------------------------- C10 ----------------------------------- *)

\* C10 as stated: a query never changes the slot, and a query returns what
\* the previous query returned unless a successful ResetReceiver came
\* between them.
C10_SameUnlessReset ==
    [][call'.msg.type = "GetReceiver" =>
          /\ storage' = storage
          /\ \A q \in lastQuery : res' = q.result
      ]_vars

\* C10 amended: a query never changes the slot, and a query returns what the
\* previous query returned unless a successful ResetReceiver or a successful
\* Init came between them.
C10_SameUnlessResetOrInit ==
    [][call'.msg.type = "GetReceiver" =>
          /\ storage' = storage
          /\ \A q \in lastQuery : ~q.reinit => res' = q.result
      ]_vars

\* a query answered after an earlier one, with TokenSend or failed calls
\* and no successful write in between
C10_Witness ==
    /\ IsCall("GetReceiver")
    /\ res.ok
    /\ before = storage
    /\ \E q \in lastQuery : q.repeats /\ q.result = res

(* ------------------------------- C11 ----------------------------------- *)

\* C11: a TokenSend call returns, and leaves in the slot, exactly what the
\* same call with the same funds from the same state would have for any
\* other sender.
C11_SenderIrrelevant ==
    IsCall("TokenSend") =>
        \A other \in HumanAddrs :
           \E out \in {handle(before, Env(other, call.sent_funds),
                              TokenSendMsg)} :
              /\ Flat(out.result) = res
              /\ out.store = storage

\* a send by someone who is neither the owner nor the receiver has succeeded
C11_Witness ==
    /\ IsCall("TokenSend")
    /\ ByStranger
    /\ canonical_address(call.sender).val # TheState(before).receiver
    /\ res.ok
    /\ Len(res.messages) = 1

(* ------------------------------- C12 ----------------------------------- *)

\* C12: every call returns at most one message; a message or a log entry is
\* returned only by a successful TokenSend; a successful ResetReceiver and a
\* successful Init return neither; a failed call returns neither.
C12_OnlySendEmits ==
    /\ Len(res.messages) <= 1
    /\ (res.messages # <<>> \/ res.log # <<>>) =>
          (IsCall("TokenSend") /\ res.ok)
    /\ (res.ok /\ (IsCall("ResetReceiver") \/ IsCall("Init"))) =>
          (res.messages = <<>> /\ res.log = <<>>)
    /\ ~res.ok => (res.messages = <<>> /\ res.log = <<>>)

\* an owner's reset has replaced the receiver and returned an empty response
C12_Witness ==
    /\ IsCall("ResetReceiver")
    /\ res.ok
    /\ storage # before
    /\ res.messages = <<>>
    /\ res.log = <<>>

(* ------------------------------- C13 ----------------------------------- *)

\* C13: while the slot is empty, a TokenSend with a qualifying coin, a
\* ResetReceiver with a well-formed receiver string and a GetReceiver each
\* fail with the not-found error and leave the slot empty; the slot is
\* filled only by a successful Init.
C13_InitComesFirst ==
    [][storage = {} =>
          /\ (\/ (call'.msg.type = "TokenSend"
                    /\ Qualifying(call'.sent_funds))
              \/ (call'.msg.type = "ResetReceiver"
                    /\ canonical_address(call'.msg.receiver).ok)
              \/ call'.msg.type = "GetReceiver")
             => (res'.err = {not_found} /\ storage' = {})
          /\ storage' # {} => (call'.msg.type = "Init" /\ res'.ok)
      ]_vars

\* a send with a qualifying coin has failed for want of a record
C13_Witness ==
    /\ IsCall("TokenSend")
    /\ Qualifying(call.sent_funds)
    /\ before = {}
    /\ storage = {}
    /\ res.err = {not_found}

(* ------------------------------- C14 ----------------------------------- *)

\* C14: the slot never holds more than one record; once it holds one, every
\* step leaves one in it; and a step that fills the empty slot is an Init.
C14_RecordPersists ==
    [][/\ Cardinality(storage') <= 1
       /\ storage # {} => storage' # {}
       /\ (storage = {} /\ storage' # {}) => call'.msg.type = "Init"
      ]_vars

\* the record has outlived a successful send and a refused call
C14_Witness ==
    /\ before # {}
    /\ storage # {}
    /\ ~res.ok
    /\ \E q \in lastQuery : q.between /\ q.result.ok

(* ------------------------------- C15 ----------------------------------- *)

\* C15: the destination of every successful TokenSend is the receiver
\* string of the latest successful ResetReceiver, or of the Init when no
\* reset has succeeded since; resets that failed in between do not count.
C15_FollowsLatestReceiver ==
    (IsCall("TokenSend") /\ res.ok) =>
        /\ given # {}
        /\ \A g \in given :
              /\ Len(res.messages) = 1
              /\ res.messages[1].to_address = g.receiver

\* a send has succeeded after a reset that succeeded and a later one that
\* was refused
C15_Witness ==
    /\ IsCall("TokenSend")
    /\ res.ok
    /\ \E g \in given :
          /\ g.by = "ResetReceiver"
          /\ g.refused
          /\ res.messages[1].to_address = g.receiver

(* ------------------------------- C16 ----------------------------------- *)

\* the sender of the latest call is one the codec accepts
SenderWellFormed == canonical_address(call.sender).ok

\* C16: an Init whose receiver string or whose sender does not convert
\* fails with the codec's error and leaves the slot as it found it, empty
\* or not.
C16_FailedInitPersistsNothing ==
    (IsCall("Init") /\ (~ReceiverWellFormed \/ ~SenderWellFormed)) =>
        /\ ~res.ok
        /\ res.err = {address_error}
        /\ storage = before

\* an Init on an empty slot has failed on its sender after its receiver
\* string had converted
C16_Witness ==
    /\ IsCall("Init")
    /\ ReceiverWellFormed
    /\ ~SenderWellFormed
    /\ before = {}
    /\ storage = {}
    /\ ~res.ok

(* ------------------------------- C17 ----------------------------------- *)

\* C17: a ResetReceiver whose receiver string does not convert fails with
\* the codec's error and leaves the slot as it found it, whether the sender
\* is the owner or not and whether the slot holds a record or not.
C17_MalformedReceiverFirst ==
    (IsCall("ResetReceiver") /\ ~ReceiverWellFormed) =>
        /\ res.err = {address_error}
        /\ storage = before

\* a reset with a malformed receiver string has failed on an empty slot
\* with the codec's error
C17_Witness ==
    /\ IsCall("ResetReceiver")
    /\ ~ReceiverWellFormed
    /\ SenderWellFormed
    /\ before = {}
    /\ res.err = {address_error}

(* ------------------------------- C18 ----------------------------------- *)

\* C18: a TokenSend without a qualifying coin fails with the generic error
\* "You must pass some UST" whether or not the slot holds a record, and a
\* TokenSend fails with the not-found error exactly when a qualifying coin
\* is attached and the slot is empty.
C18_FundsTestedFirst ==
    IsCall("TokenSend") =>
        /\ ~Qualifying(call.sent_funds) =>
              res.err = {[kind |-> "GenericErr",
                          msg |-> "You must pass some UST"]}
        /\ res.err = {not_found} <=>
              (Qualifying(call.sent_funds) /\ before = {})

\* a send without a qualifying coin has been refused on an empty slot
C18_Witness ==
    /\ IsCall("TokenSend")
    /\ ~Qualifying(call.sent_funds)
    /\ before = {}
    /\ ~res.ok
    /\ res.err # {not_found}

(* ------------------------------- C19 ----------------------------------- *)

\* C19: an Init with a well-formed receiver string and sender on a slot that
\* already holds a record succeeds and leaves exactly the record made of
\* the new receiver and the new sender.
C19_InitOverwrites ==
    (IsCall("Init") /\ before # {} /\ ReceiverWellFormed /\ SenderWellFormed)
        => /\ res.ok
           /\ storage = {[receiver |-> canonical_address(call.msg.receiver).val,
                          owner |-> canonical_address(call.sender).val]}

\* a second Init has replaced both the owner and the receiver
C19_Witness ==
    /\ IsCall("Init")
    /\ res.ok
    /\ before # {}
    /\ storage # {}
    /\ TheState(storage).owner # TheState(before).owner
    /\ TheState(storage).receiver # TheState(before).receiver

====
